---- MODULE Spec2Model ----
(***************************************************************************)
(* Better Posture (src/main.go): the reminder clock of onReady, its        *)
(* detached delivery goroutines, the interval commands of the tray menu    *)
(* and the settings store (loadConfig / saveConfig).                       *)
(*                                                                         *)
(* Time is an integer count of clock units; UnitsPerSecond of them make a  *)
(* second (time.Duration has 10^9).  The ticker of the event loop is       *)
(* sampled every TickScale seconds instead of every second, so that an     *)
(* interval of a minute or two elapses within MaxTicks ticks.  The clock   *)
(* is followed while the event loop runs, for at most MaxTicks periods; at *)
(* most MaxCmds menu commands other than Quit are handled.  The scenario   *)
(* SpecScenario keeps the ticker's own period of one second, with the      *)
(* interval held at ScenarioInterval minutes, until ScenarioSlack seconds  *)
(* after the interval has elapsed.                                         *)
(***************************************************************************)
EXTENDS Integers, Sequences, FiniteSets, TLC

\* ------------------------------------------------------------- bounds
UnitsPerSecond == 2
TickScale == 60
MaxTicks == 2
MaxCmds == 2
ScenarioInterval == 5
ScenarioSlack == 2
MaxProcs == 2

\* ---------------------------------------------------------- constants
defaultInterval == 3
minInterval == 1
maxInterval == 24 * 60
defaultReminderTitle == "Posture Reminder"
defaultReminderMessage == "Time to check your posture!"

Second == UnitsPerSecond
Minute == 60 * Second
TickPeriod == TickScale * Second
MaxTime == MaxTicks * TickPeriod
ScenarioEnd == ScenarioInterval * Minute + ScenarioSlack * Second

VARIABLES
    cfg,                \* onReady's cfg: the in-memory Config
    disk,               \* the content of settings.json
    intervalLabel,      \* title of mIntervalLabel
    countdown,          \* title of mCountdown and tooltip: base or remaining time
    lastTriggeredUnix,  \* atomic int64 of onReady
    isMessageShowing,   \* atomic.Bool of onReady
    now,                \* the wall clock
    tickPending,        \* ticker.C holds a tick (buffer of one)
    loopPc,             \* position of the event-loop goroutine
    last,               \* the tick's local `last` of line 440
    goroutines,         \* the delivery goroutines that have not returned
    dispatched,         \* number of `go func(tit, msg)` executed so far
    lastCmd,            \* the latest menu command handled and what it did
    nCmds,              \* number of menu commands handled so far
    instanceMutex,      \* the instance's handle of the single-instance mutex
    showingAtDisplay,   \* the tick's isMessageShowing.Load() of line 418
    procs,              \* position of every process started from the program
    mutexHandles,       \* processes holding a handle of the named mutex
    fmtD,               \* argument of a call of formatDuration
    fmtText             \* what that call returned

\* State outside the running instance: the processes of the program and a
\* call of formatDuration on its own.
outside == <<procs, mutexHandles, fmtD, fmtText>>

vars == <<cfg, disk, intervalLabel, countdown, lastTriggeredUnix,
          isMessageShowing, now, tickPending, loopPc, last, goroutines,
          dispatched, lastCmd, nCmds, instanceMutex, showingAtDisplay,
          outside>>

\* ------------------------------------------------------------ Config
Config(i, t, m) ==
    [IntervalMinutes |-> i, ReminderTitle |-> t, ReminderMessage |-> m]

\* Variant that returns Go's zero Config in place of the defaults.
zeroCfg == Config(0, "", "")

defaultCfg ==
    Config(defaultInterval, defaultReminderTitle, defaultReminderMessage)

\* The settings file: absent, not JSON, or a JSON object (absent fields are
\* Go's zero values 0 and "").
FileMissing == [kind |-> "missing", cfg |-> Config(0, "", "")]
FileInvalid == [kind |-> "invalid", cfg |-> Config(0, "", "")]
FileJson(c) == [kind |-> "json", cfg |-> c]

InitialFiles ==
    { FileMissing, FileInvalid,
      FileJson(Config(5, "Stand up", "Stretch")),
      FileJson(Config(99999, "", "")) }

\* saveConfig: os.WriteFile either replaces the file or fails and leaves it.
saveConfig(c, d, ok) == IF ok THEN FileJson(c) ELSE d

SaveResult(ok) == IF ok THEN "ok" ELSE "failed"

\* loadConfig on file d, with ok the outcome of the save it may attempt:
\* the returned config, the file afterwards, and whether a save was attempted.
sanitize(c) ==
    LET i1 == IF c.IntervalMinutes < minInterval THEN minInterval
              ELSE c.IntervalMinutes
        i2 == IF i1 > maxInterval THEN maxInterval ELSE i1
        t  == IF c.ReminderTitle = "" THEN defaultReminderTitle
              ELSE c.ReminderTitle
        m  == IF c.ReminderMessage = "" THEN defaultReminderMessage
              ELSE c.ReminderMessage
    IN  Config(i2, t, m)

\* Variant that re-saves only for a clamped interval.
needsSaveIntervalOnly(c) ==
    \/ c.IntervalMinutes < minInterval
    \/ c.IntervalMinutes > maxInterval

needsSave(c) ==
    \/ c.IntervalMinutes < minInterval
    \/ c.IntervalMinutes > maxInterval
    \/ c.ReminderTitle = ""
    \/ c.ReminderMessage = ""

loadConfig(d, ok) ==
    IF d.kind # "json"
    THEN [cfg |-> defaultCfg, disk |-> saveConfig(defaultCfg, d, ok),
          saved |-> SaveResult(ok)]
    ELSE LET c == sanitize(d.cfg)
         IN  [cfg |-> c,
              disk |-> IF needsSave(d.cfg) THEN saveConfig(c, d, ok) ELSE d,
              saved |-> IF needsSave(d.cfg) THEN SaveResult(ok) ELSE "none"]

\* --------------------------------------------------- formatDuration
\* time.Duration.Round(m): to the nearest multiple of m, halves away from zero.
Round(d, m) ==
    IF d < 0
    THEN LET r == (-d) % m
         IN  IF r + r < m THEN d + r ELSE d - m + r
    ELSE LET r == d % m
         IN  IF r + r < m THEN d - r ELSE d + m - r

\* int(d.Seconds()): truncation toward zero.
Seconds(d) == IF d < 0 THEN -((-d) \div Second) ELSE d \div Second

\* Variant without the clamp of a negative total to 0.
formatDurationNoClamp(d) ==
    LET r == Round(d, Second)
        totalSeconds == Seconds(r)
    IN  << totalSeconds \div 3600, (totalSeconds \div 60) % 60,
           totalSeconds % 60 >>

formatDuration(d) ==
    LET r == Round(d, Second)
        t == Seconds(r)
        totalSeconds == IF t < 0 THEN 0 ELSE t
    IN  << totalSeconds \div 3600, (totalSeconds \div 60) % 60,
           totalSeconds % 60 >>

\* fmt.Sprintf("Interval: %s", formatDuration(d)) of a whole number of minutes
IntervalTitle(i) == formatDuration(i * Minute)

\* "Countdown:" and the base tooltip, against "Countdown: <h>h <m>m <s>s"
BaseCountdown == [running |-> FALSE, text |-> <<0, 0, 0>>]
RunningCountdown(d) == [running |-> TRUE, text |-> formatDuration(d)]

\* ------------------------------------------------------------ Init
\* The processes started from the program; onReady runs in process 1.
Procs == 1 .. MaxProcs

NoCmd == [kind |-> "none", delta |-> 0, prev |-> 0, saved |-> "none"]

InitWith(files) ==
    \E f \in files, ok \in BOOLEAN :
        LET r == loadConfig(f, ok)
        IN  /\ cfg = r.cfg
            /\ disk = r.disk
            /\ intervalLabel = IntervalTitle(r.cfg.IntervalMinutes)
            /\ countdown = BaseCountdown
            /\ now = 0
            /\ lastTriggeredUnix = 0
            /\ isMessageShowing = FALSE
            /\ tickPending = FALSE
            /\ loopPc = "select"
            /\ last = 0
            /\ goroutines = {}
            /\ dispatched = 0
            /\ lastCmd = NoCmd
            /\ nCmds = 0
            /\ instanceMutex = TRUE
            /\ showingAtDisplay = FALSE
            /\ procs = [p \in Procs |-> IF p = 1 THEN "running" ELSE "off"]
            /\ mutexHandles = {1}
            /\ fmtD = 0
            /\ fmtText = formatDuration(0)

Init == InitWith(InitialFiles)

\* ------------------------------------------------- interval commands
Deltas == {1, -1, 5, -5, 30, -30, 60, -60}

\* Variant of updateInterval's clamp without the upper limit.
clampIntervalNoMax(newInterval) ==
    IF newInterval < minInterval THEN minInterval ELSE newInterval

clampInterval(newInterval) ==
    LET n1 == IF newInterval < minInterval THEN minInterval ELSE newInterval
    IN  IF n1 > maxInterval THEN maxInterval ELSE n1

\* Variant in which the delivery is awaited before the next select.
LoopReadyAfterDelivery ==
    /\ loopPc = "select"
    /\ \A g \in goroutines : g.pc \notin {"toast", "message"}

\* Variant in which the menu clicks are handled by a goroutine of their own,
\* at any point of a tick.
LoopReadyAnytime == loopPc # "exited"

\* The select of the event loop takes a case only between iterations.
LoopReady == loopPc = "select"

\* Variant that writes the file only when the interval changed.
updateIntervalIfChanged(newInterval, ok) ==
    LET c == [cfg EXCEPT !.IntervalMinutes = clampInterval(newInterval)]
    IN  /\ cfg' = c
        /\ disk' = IF c = cfg THEN disk ELSE saveConfig(c, disk, ok)
        /\ intervalLabel' = IntervalTitle(c.IntervalMinutes)

\* Variant that builds a fresh Config around the new interval.
updateIntervalFreshConfig(newInterval, ok) ==
    LET c == [defaultCfg EXCEPT
                 !.IntervalMinutes = clampInterval(newInterval)]
    IN  /\ cfg' = c
        /\ disk' = saveConfig(c, disk, ok)
        /\ intervalLabel' = IntervalTitle(c.IntervalMinutes)

\* Variant that keeps the old interval when the save failed.
updateIntervalRollback(newInterval, ok) ==
    LET c == IF ok
             THEN [cfg EXCEPT !.IntervalMinutes = clampInterval(newInterval)]
             ELSE cfg
    IN  /\ cfg' = c
        /\ disk' = saveConfig(c, disk, ok)
        /\ intervalLabel' = IntervalTitle(c.IntervalMinutes)

\* updateInterval(newInterval), with ok the outcome of its saveConfig
updateInterval(newInterval, ok) ==
    LET c == [cfg EXCEPT !.IntervalMinutes = clampInterval(newInterval)]
    IN  /\ cfg' = c
        /\ disk' = saveConfig(c, disk, ok)
        /\ intervalLabel' = IntervalTitle(c.IntervalMinutes)

\* Variant that adds the delta to the persisted interval.
AdjustArgFromDisk(d) == disk.cfg.IntervalMinutes + d

\* lines 464-486: updateInterval(cfg.IntervalMinutes + d)
AdjustArg(d) == cfg.IntervalMinutes + d

\* Variant that resets to the minimum.
ResetArgMin == minInterval

\* line 489: updateInterval(defaultInterval)
ResetArg == defaultInterval

AdjustCmd(d) ==
    /\ LoopReady
    /\ nCmds < MaxCmds
    /\ \E ok \in BOOLEAN :
          /\ updateInterval(AdjustArg(d), ok)
          /\ lastCmd' = [kind |-> "adjust", delta |-> d,
                         prev |-> cfg.IntervalMinutes, saved |-> SaveResult(ok)]
    /\ nCmds' = nCmds + 1
    /\ UNCHANGED <<countdown, lastTriggeredUnix, isMessageShowing, now,
                   tickPending, loopPc, last, goroutines, dispatched,
                   instanceMutex,
                   showingAtDisplay, outside>>

ResetCmd ==
    /\ LoopReady
    /\ nCmds < MaxCmds
    /\ \E ok \in BOOLEAN :
          /\ updateInterval(ResetArg, ok)
          /\ lastCmd' = [kind |-> "reset", delta |-> 0,
                         prev |-> cfg.IntervalMinutes, saved |-> SaveResult(ok)]
    /\ nCmds' = nCmds + 1
    /\ UNCHANGED <<countdown, lastTriggeredUnix, isMessageShowing, now,
                   tickPending, loopPc, last, goroutines, dispatched,
                   instanceMutex,
                   showingAtDisplay, outside>>

\* go showAbout(): a message box of its own goroutine, no shared state
AboutCmd ==
    /\ LoopReady
    /\ nCmds < MaxCmds
    /\ lastCmd' = [kind |-> "about", delta |-> 0,
                   prev |-> cfg.IntervalMinutes, saved |-> "none"]
    /\ nCmds' = nCmds + 1
    /\ UNCHANGED <<cfg, disk, intervalLabel, countdown, lastTriggeredUnix,
                   isMessageShowing, now, tickPending, loopPc, last,
                   goroutines, dispatched, instanceMutex,
                   showingAtDisplay, outside>>

\* Variant without the return after systray.Quit(): the loop goes on.
QuitCmdNoReturn ==
    /\ LoopReady
    /\ lastCmd.kind # "quit"
    /\ loopPc' = "select"
    /\ instanceMutex' = FALSE
    /\ mutexHandles' = mutexHandles \ {1}
    /\ procs' = [procs EXCEPT ![1] = "off"]
    /\ lastCmd' = [kind |-> "quit", delta |-> 0,
                   prev |-> cfg.IntervalMinutes, saved |-> "none"]
    /\ UNCHANGED <<cfg, disk, intervalLabel, countdown, lastTriggeredUnix,
                   isMessageShowing, now, tickPending, last, goroutines,
                   dispatched, nCmds, showingAtDisplay, fmtD, fmtText>>

\* systray.Quit(); return -- the deferred ticker.Stop(), then onExit
QuitCmd ==
    /\ LoopReady
    /\ loopPc' = "exited"
    /\ tickPending' = FALSE
    /\ instanceMutex' = FALSE
    /\ mutexHandles' = mutexHandles \ {1}
    /\ procs' = [procs EXCEPT ![1] = "off"]
    /\ lastCmd' = [kind |-> "quit", delta |-> 0,
                   prev |-> cfg.IntervalMinutes, saved |-> "none"]
    /\ UNCHANGED <<cfg, disk, intervalLabel, countdown, lastTriggeredUnix,
                   isMessageShowing, now, last, goroutines, dispatched,
                   nCmds, showingAtDisplay, fmtD, fmtText>>

\* --------------------------------------------------------- the tick
\* lines 418-438: the countdown display
TickDisplay ==
    /\ LoopReady
    /\ tickPending
    /\ tickPending' = FALSE
    /\ countdown' =
          IF isMessageShowing
          THEN BaseCountdown
          ELSE LET intervalMinutes == cfg.IntervalMinutes
                   nextTrigger == lastTriggeredUnix + intervalMinutes * Minute
                   remaining == nextTrigger - now
               IN  IF remaining <= 0 THEN BaseCountdown
                   ELSE RunningCountdown(remaining)
    /\ showingAtDisplay' = isMessageShowing
    /\ loopPc' = "loadLast"
    /\ UNCHANGED <<cfg, disk, intervalLabel, lastTriggeredUnix,
                   isMessageShowing, now, last, goroutines, dispatched,
                   lastCmd, nCmds, instanceMutex, outside>>

\* line 440: last := time.Unix(0, atomic.LoadInt64(&lastTriggeredUnix))
TickLoadLast ==
    /\ loopPc = "loadLast"
    /\ last' = lastTriggeredUnix
    /\ loopPc' = "check"
    /\ UNCHANGED <<cfg, disk, intervalLabel, countdown, lastTriggeredUnix,
                   isMessageShowing, now, tickPending, goroutines, dispatched,
                   lastCmd, nCmds, instanceMutex,
                   showingAtDisplay, outside>>

\* Variant that keeps the interval from before the latest command.
TickIntervalStale ==
    IF lastCmd.kind \in {"adjust", "reset"} THEN lastCmd.prev
    ELSE cfg.IntervalMinutes

\* lines 442-444: the interval the trigger check uses
TickIntervalMinutes == cfg.IntervalMinutes

\* Variants of the check of line 446: without the isMessageShowing test, and
\* with > in place of >=.
ShouldTriggerIgnoringFlag ==
    now - last >= cfg.IntervalMinutes * Minute

ShouldTriggerStrict ==
    /\ now - last > cfg.IntervalMinutes * Minute
    /\ ~isMessageShowing

\* line 446: time.Since(last) >= interval && !isMessageShowing.Load()
ShouldTrigger ==
    /\ now - last >= TickIntervalMinutes * Minute
    /\ ~isMessageShowing

\* lines 446-447: the check, and isMessageShowing.Store(true) when it passes
TickCheck ==
    /\ loopPc = "check"
    /\ IF ShouldTrigger
       THEN /\ isMessageShowing' = TRUE
            /\ loopPc' = "spawn"
            /\ last' = last
            /\ showingAtDisplay' = showingAtDisplay
       ELSE /\ isMessageShowing' = isMessageShowing
            /\ loopPc' = "select"
            /\ last' = 0
            /\ showingAtDisplay' = FALSE
    /\ UNCHANGED <<cfg, disk, intervalLabel, countdown, lastTriggeredUnix,
                   now, tickPending, goroutines, dispatched, lastCmd,
                   nCmds, instanceMutex, outside>>

\* lines 449-461: read title and message, go func(tit, msg)
TickSpawn ==
    /\ loopPc = "spawn"
    /\ goroutines' = goroutines \cup
          { [id |-> dispatched + 1, at |-> now, pc |-> "toast",
             tit |-> cfg.ReminderTitle, msg |-> cfg.ReminderMessage,
             err |-> FALSE, toasts |-> 1, messages |-> 0] }
    /\ dispatched' = dispatched + 1
    /\ loopPc' = "select"
    /\ last' = 0
    /\ showingAtDisplay' = FALSE
    /\ UNCHANGED <<cfg, disk, intervalLabel, countdown, lastTriggeredUnix,
                   isMessageShowing, now, tickPending, lastCmd, nCmds,
                   instanceMutex, outside>>

\* ------------------------------------------- the delivery goroutine
Replace(g, h) == (goroutines \ {g}) \cup {h}

\* Variant that shows the dialog after every toast.
NeedsFallbackAlways(err) == TRUE

\* line 456: the fallback runs when showToast returned an error
NeedsFallback(err) == err

\* line 455: err := showToast(tit, msg) returns; on an error line 457 calls
\* showMessage(tit, msg)
ToastReturns(g) ==
    /\ g.pc = "toast"
    /\ \E err \in BOOLEAN :
          goroutines' = Replace(g,
              IF NeedsFallback(err)
              THEN [g EXCEPT !.err = err, !.pc = "message",
                             !.messages = g.messages + 1]
              ELSE [g EXCEPT !.err = err, !.pc = "clear"])
    /\ UNCHANGED <<cfg, disk, intervalLabel, countdown, lastTriggeredUnix,
                   isMessageShowing, now, tickPending, loopPc, last,
                   dispatched, lastCmd, nCmds, instanceMutex,
                   showingAtDisplay, outside>>

\* line 457: showMessage(tit, msg) returns (the dialog was dismissed)
MessageReturns(g) ==
    /\ g.pc = "message"
    /\ goroutines' = Replace(g, [g EXCEPT !.pc = "clear"])
    /\ UNCHANGED <<cfg, disk, intervalLabel, countdown, lastTriggeredUnix,
                   isMessageShowing, now, tickPending, loopPc, last,
                   dispatched, lastCmd, nCmds, instanceMutex,
                   showingAtDisplay, outside>>

\* line 459: isMessageShowing.Store(false)
ClearShowing(g) ==
    /\ g.pc = "clear"
    /\ isMessageShowing' = FALSE
    /\ goroutines' = Replace(g, [g EXCEPT !.pc = "store"])
    /\ UNCHANGED <<cfg, disk, intervalLabel, countdown, lastTriggeredUnix,
                   now, tickPending, loopPc, last, dispatched,
                   lastCmd, nCmds, instanceMutex,
                   showingAtDisplay, outside>>

\* Variant that stores the old value back.
CompletionStampStale == lastTriggeredUnix

\* line 460: the value stored, time.Now().UnixNano()
CompletionStamp == now

\* line 460: atomic.StoreInt64(&lastTriggeredUnix, ...), and the goroutine ends
StoreLast(g) ==
    /\ g.pc = "store"
    /\ lastTriggeredUnix' = CompletionStamp
    /\ goroutines' = goroutines \ {g}
    /\ UNCHANGED <<cfg, disk, intervalLabel, countdown, isMessageShowing,
                   now, tickPending, loopPc, last, dispatched,
                   lastCmd, nCmds, instanceMutex,
                   showingAtDisplay, outside>>

\* ------------------------------------------------------- the clock
\* One ticker period passes and the ticker offers a tick.
Advance(period, end) ==
    /\ now < end
    /\ loopPc # "exited"
    /\ now' = now + period
    /\ tickPending' = TRUE
    /\ UNCHANGED <<cfg, disk, intervalLabel, countdown, lastTriggeredUnix,
                   isMessageShowing, loopPc, last, goroutines, dispatched,
                   lastCmd, nCmds, instanceMutex,
                   showingAtDisplay, outside>>

Next ==
    \/ \E d \in Deltas : AdjustCmd(d)
    \/ ResetCmd
    \/ AboutCmd
    \/ QuitCmd
    \/ TickDisplay
    \/ TickLoadLast
    \/ TickCheck
    \/ TickSpawn
    \/ \E g \in goroutines : ToastReturns(g)
    \/ \E g \in goroutines : MessageReturns(g)
    \/ \E g \in goroutines : ClearShowing(g)
    \/ \E g \in goroutines : StoreLast(g)
    \/ Advance(TickPeriod, MaxTime)

Spec == Init /\ [][Next]_vars

\* -------------------------------------------------------- scenario
\* The interval is 5 minutes from the start and no command is given; the
\* ticker has its period of one second.
InitScenario ==
    InitWith({ FileJson(Config(ScenarioInterval, "Stand up", "Stretch")) })

NextScenario ==
    \/ TickDisplay
    \/ TickLoadLast
    \/ TickCheck
    \/ TickSpawn
    \/ \E g \in goroutines : ToastReturns(g)
    \/ \E g \in goroutines : MessageReturns(g)
    \/ \E g \in goroutines : ClearShowing(g)
    \/ \E g \in goroutines : StoreLast(g)
    \/ Advance(Second, ScenarioEnd)

SpecScenario == InitScenario /\ [][NextScenario]_vars

\* --------------------------------------------------------- startup
\* The processes of the program from main to their end, over a settings
\* file of any content.  A process that runs onReady is "running": its
\* loops are those of Spec and are not followed here.
LoadIntervals == {-5, 0, 1, 3, 1440, 1441, 99999}

LoadFiles ==
    { FileMissing, FileInvalid } \cup
    { FileJson(Config(i, t, m)) :
        i \in LoadIntervals, t \in {"", "Stand up"}, m \in {"", "Stretch"} }

InitStartup ==
    /\ disk \in LoadFiles
    /\ cfg = zeroCfg
    /\ intervalLabel = IntervalTitle(0)
    /\ countdown = BaseCountdown
    /\ now = 0
    /\ lastTriggeredUnix = 0
    /\ isMessageShowing = FALSE
    /\ tickPending = FALSE
    /\ loopPc = "exited"
    /\ last = 0
    /\ goroutines = {}
    /\ dispatched = 0
    /\ lastCmd = NoCmd
    /\ nCmds = 0
    /\ instanceMutex = FALSE
    /\ showingAtDisplay = FALSE
    /\ procs = [p \in Procs |-> "off"]
    /\ mutexHandles = {}
    /\ fmtD = 0
    /\ fmtText = formatDuration(0)

\* Variant that never sees the mutex of another process.
AlreadyExistsNever == FALSE

\* lines 320 and 324: CreateMutex found the named mutex (it exists while any
\* process holds a handle of it)
AlreadyExists == mutexHandles # {}

\* lines 347-349 and 317-330: main calls enforceSingleInstance.  CreateMutex
\* opens a handle; when the mutex existed the function returns false, with
\* the handle closed (line 325) or left to the end of the process (line 322).
Launch(p) ==
    /\ procs[p] = "off"
    /\ IF AlreadyExists
       THEN /\ procs' = [procs EXCEPT ![p] = "rejected"]
            /\ \E closed \in BOOLEAN :
                  mutexHandles' = IF closed THEN mutexHandles
                                  ELSE mutexHandles \cup {p}
            /\ instanceMutex' = instanceMutex
       ELSE /\ procs' = [procs EXCEPT ![p] = "ready"]
            /\ mutexHandles' = mutexHandles \cup {p}
            /\ instanceMutex' = TRUE
    /\ UNCHANGED <<cfg, disk, intervalLabel, countdown, lastTriggeredUnix,
                   isMessageShowing, now, tickPending, loopPc, last,
                   goroutines, dispatched, lastCmd, nCmds, showingAtDisplay,
                   fmtD, fmtText>>

\* lines 348-350: main returns, the process ends and its handles are closed
Return(p) ==
    /\ procs[p] = "rejected"
    /\ procs' = [procs EXCEPT ![p] = "off"]
    /\ mutexHandles' = mutexHandles \ {p}
    /\ UNCHANGED <<cfg, disk, intervalLabel, countdown, lastTriggeredUnix,
                   isMessageShowing, now, tickPending, loopPc, last,
                   goroutines, dispatched, lastCmd, nCmds, instanceMutex,
                   showingAtDisplay, fmtD, fmtText>>

\* lines 351 and 363-368: systray.Run calls onReady, which loads the config
OnReady(p) ==
    /\ procs[p] = "ready"
    /\ procs' = [procs EXCEPT ![p] = "running"]
    /\ \E ok \in BOOLEAN :
          LET r == loadConfig(disk, ok)
          IN  /\ cfg' = r.cfg
              /\ disk' = r.disk
              /\ intervalLabel' = IntervalTitle(r.cfg.IntervalMinutes)
              /\ lastCmd' = [kind |-> "load", delta |-> 0,
                             prev |-> disk.cfg.IntervalMinutes,
                             saved |-> r.saved]
    /\ UNCHANGED <<countdown, lastTriggeredUnix, isMessageShowing, now,
                   tickPending, loopPc, last, goroutines, dispatched, nCmds,
                   instanceMutex, showingAtDisplay, mutexHandles, fmtD,
                   fmtText>>

\* lines 494-496 and 502-507: Quit, and onExit closes the handle
Exit(p) ==
    /\ procs[p] = "running"
    /\ procs' = [procs EXCEPT ![p] = "off"]
    /\ mutexHandles' = mutexHandles \ {p}
    /\ instanceMutex' = FALSE
    /\ UNCHANGED <<cfg, disk, intervalLabel, countdown, lastTriggeredUnix,
                   isMessageShowing, now, tickPending, loopPc, last,
                   goroutines, dispatched, lastCmd, nCmds, showingAtDisplay,
                   fmtD, fmtText>>

NextStartup ==
    \/ \E p \in Procs : Launch(p)
    \/ \E p \in Procs : Return(p)
    \/ \E p \in Procs : OnReady(p)
    \/ \E p \in Procs : Exit(p)

SpecStartup == InitStartup /\ [][NextStartup]_vars

\* -------------------------------------------- formatDuration alone
\* Calls of formatDuration on durations around the turns of the minute, the
\* hour and the day, negative ones included, each with every offset of
\* less than a second.
FormatSeconds ==
    (-3 .. 62) \cup (3598 .. 3602) \cup (3659 .. 3662) \cup
    {-86400, -3661, -60, 119, 120, 7199, 7200, 86399, 86400, 90061}

InitFormat ==
    /\ InitStartup
    /\ disk = FileMissing

Format ==
    /\ \E t \in FormatSeconds, r \in 0 .. Second - 1 :
          /\ fmtD' = t * Second + r
          /\ fmtText' = formatDuration(t * Second + r)
    /\ UNCHANGED <<cfg, disk, intervalLabel, countdown, lastTriggeredUnix,
                   isMessageShowing, now, tickPending, loopPc, last,
                   goroutines, dispatched, lastCmd, nCmds, instanceMutex,
                   showingAtDisplay, procs, mutexHandles>>

NextFormat == Format

SpecFormat == InitFormat /\ [][NextFormat]_vars

\* =================================================================
\* Properties
\* =================================================================

\* Deliveries whose goroutine has not yet executed isMessageShowing.Store(false)
Delivering == { g \in goroutines : g.pc \in {"toast", "message", "clear"} }

\* The event loop takes a step of the tick it is in
LoopLeaves(pc) == loopPc = pc /\ loopPc' # pc

Due(since, minutes) == now - since >= minutes * Minute

\* C1: at most one delivery is in flight.  A tick that has decided to
\* dispatch (it is between its Store(true) and its go statement) counts as
\* one: it never coexists with a delivery that has not finished, whatever
\* the elapsed time and the interval, and while a delivery is in flight the
\* flag is set, so the delivery hanging forever keeps every tick from
\* dispatching.
C1_AtMostOneInFlight ==
    /\ Cardinality(Delivering) + (IF loopPc = "spawn" THEN 1 ELSE 0) <= 1
    /\ (Delivering # {} => isMessageShowing)

\* A tick is at its trigger check with twice the interval elapsed, after an
\* interval command, while a delivery is still in flight.
C1_Witness ==
    /\ Delivering # {}
    /\ loopPc = "check"
    /\ Due(last, 2 * cfg.IntervalMinutes)
    /\ lastCmd.kind = "adjust"

\* C2: a delivery is dispatched only when at least intervalMinutes have
\* elapsed since the previous delivery completed: when the tick has decided
\* to dispatch, no earlier delivery is still about to record its completion
\* time, and the recorded completion time is at least the interval old.
C2_DispatchOnlyAfterInterval ==
    loopPc = "spawn" =>
        /\ \A g \in goroutines : g.pc # "store"
        /\ Due(lastTriggeredUnix, cfg.IntervalMinutes)

\* C3: a tick whose check runs exactly intervalMinutes after lastTriggeredAt
\* with no notification showing sets isNotificationShowing and dispatches
\* exactly one delivery; the flag is set when the goroutine is started and
\* stays set until showToast, and showMessage if it is called, have returned.
C3_ExactlyDueDispatchesOne ==
    /\ [][ (LoopLeaves("check") /\ now - last = cfg.IntervalMinutes * Minute
                                /\ ~isMessageShowing)
           => (loopPc' = "spawn" /\ isMessageShowing') ]_vars
    /\ [][ LoopLeaves("spawn")
           => /\ isMessageShowing
              /\ dispatched' = dispatched + 1
              /\ \E g \in goroutines' :
                    /\ g.pc = "toast" /\ g.at = now
                    /\ goroutines' = goroutines \cup {g}
                    /\ g \notin goroutines ]_vars
    /\ [](\A g \in goroutines :
             g.pc \in {"toast", "message"} => isMessageShowing)
    /\ [][ (isMessageShowing /\ ~isMessageShowing')
           => \E g \in goroutines : g.pc = "clear" /\ g.toasts = 1 ]_vars

\* The tick has passed its check exactly when due and is about to dispatch.
C3_Witness ==
    /\ loopPc = "spawn"
    /\ now - last = cfg.IntervalMinutes * Minute
    /\ isMessageShowing

\* The goroutine g takes a step: its record is replaced or removed
Steps(g) == g \in goroutines /\ g \notin goroutines'

Ended(g) == Steps(g) /\ \A h \in goroutines' : h.id # g.id

\* With the interval at 5 minutes and a tick every second, no tick dispatches
\* before 5 minutes have passed, and the first tick whose check runs at 5
\* minutes or later dispatches exactly one delivery.
C4_BeforeAndAtInterval ==
    /\ [](cfg.IntervalMinutes = ScenarioInterval)
    /\ [](now < ScenarioInterval * Minute
            => dispatched = 0 /\ loopPc # "spawn" /\ ~isMessageShowing)
    /\ [][ (LoopLeaves("check") /\ dispatched = 0
                                /\ now >= ScenarioInterval * Minute)
           => loopPc' = "spawn" ]_vars
    /\ [][ LoopLeaves("spawn")
           => /\ dispatched' = dispatched + 1
              /\ Cardinality(goroutines') = Cardinality(goroutines) + 1 ]_vars

\* C4 (as amended): with the interval at 5 minutes and a tick every second,
\* no tick dispatches before 5 minutes have passed, the tick at 5 minutes
\* dispatches exactly one delivery, and lastTriggeredAt is then set to the
\* time at which that delivery's goroutine finishes, which is no earlier
\* than the trigger.
C4_ScenarioTrigger ==
    /\ C4_BeforeAndAtInterval
    /\ [][ \A g \in goroutines :
             (g.pc = "store" /\ Ended(g))
             => (lastTriggeredUnix' = now /\ now >= g.at) ]_vars

\* C4 as claimed: ... and lastTriggeredAt is then updated to the time of
\* that trigger.
C4_LastTriggeredIsTriggerTime ==
    /\ C4_BeforeAndAtInterval
    /\ [][ \A g \in goroutines :
             (g.pc = "store" /\ Ended(g))
             => lastTriggeredUnix' = g.at ]_vars

\* The delivery dispatched at 5 minutes has finished, later than it began.
C4_Witness ==
    /\ dispatched = 1
    /\ goroutines = {}
    /\ lastTriggeredUnix > ScenarioInterval * Minute

\* C5: the in-memory interval is within [1, 1440] and title and message are
\* not empty, after load and after every command and tick.
C5_ConfigInRange ==
    /\ cfg.IntervalMinutes \in 1..1440
    /\ cfg.ReminderTitle # ""
    /\ cfg.ReminderMessage # ""

\* +1h at 1440 minutes, on a config whose interval and texts loadConfig
\* had to sanitize, and a tick has run since.
C5_Witness ==
    /\ lastCmd.kind = "adjust"
    /\ lastCmd.prev + lastCmd.delta > maxInterval
    /\ cfg.ReminderTitle = defaultReminderTitle
    /\ cfg.ReminderMessage = defaultReminderMessage
    /\ countdown.running

Min(a, b) == IF a < b THEN a ELSE b
Max(a, b) == IF a > b THEN a ELSE b

\* C6: an adjustment by d sets the interval to min(1440, max(1, current + d))
\* with current the value just before the command; the result is monotonic
\* in d; and the interval changes with commands only, so none is lost.
C6_AdjustClamps ==
    /\ [](lastCmd.kind = "adjust"
            => cfg.IntervalMinutes
                 = Min(1440, Max(1, lastCmd.prev + lastCmd.delta)))
    /\ [](\A d1, d2 \in Deltas :
            d1 <= d2 => clampInterval(AdjustArg(d1)) <= clampInterval(AdjustArg(d2)))
    /\ [][ lastCmd' = lastCmd => cfg' = cfg ]_vars
    /\ [][ lastCmd' # lastCmd => lastCmd'.prev = cfg.IntervalMinutes ]_vars

\* A second adjustment, -1 on the 8 minutes an earlier +5 gave, with a tick
\* in between.
C6_Witness ==
    /\ nCmds = 2
    /\ lastCmd.kind = "adjust"
    /\ lastCmd.prev = 8
    /\ lastCmd.delta = -1
    /\ cfg.IntervalMinutes = 7
    /\ now > 0

\* C7: reset sets the interval to exactly 3 minutes whatever it was, and
\* writes the config: the settings file holds it whenever the write succeeds.
C7_ResetToDefault ==
    lastCmd.kind = "reset" =>
        /\ cfg.IntervalMinutes = 3
        /\ lastCmd.saved \in {"ok", "failed"}
        /\ (lastCmd.saved = "ok" => disk = FileJson(cfg))

\* Reset from 1440 minutes, written to the settings file.
C7_Witness ==
    /\ lastCmd.kind = "reset"
    /\ lastCmd.prev = maxInterval
    /\ lastCmd.saved = "ok"
    /\ disk.cfg.IntervalMinutes = defaultInterval

\* C8: while a delivery is in flight the event loop is never held: its next
\* step of a tick, and every interval command and Quit at the select, can be
\* taken.
C8_LoopNeverBlocked ==
    (Delivering # {} /\ loopPc # "exited") =>
        /\ (loopPc = "select" /\ tickPending => ENABLED TickDisplay)
        /\ (loopPc = "loadLast" => ENABLED TickLoadLast)
        /\ (loopPc = "check" => ENABLED TickCheck)
        /\ (loopPc = "select" /\ nCmds < MaxCmds
              => /\ ENABLED ResetCmd
                 /\ \A d \in Deltas : ENABLED AdjustCmd(d))
        /\ (loopPc = "select" => ENABLED QuitCmd)

\* The fallback dialog is still open one tick period after the dispatch, a
\* command has been handled meanwhile and a later tick is at its check.
C8_Witness ==
    /\ \E g \in goroutines : g.pc = "message" /\ g.at < now
    /\ loopPc = "check"
    /\ lastCmd.kind = "adjust"
    /\ nCmds = 2

\* C9: a delivery calls showToast once, and showMessage once exactly when
\* showToast returned an error, with no retry; whatever the outcome, when
\* the attempt has finished isMessageShowing is set to false and then
\* lastTriggeredAt to the current time.
C9_FallbackOnceThenReset ==
    /\ [](\A g \in goroutines :
            /\ g.toasts = 1
            /\ g.messages = (IF g.pc # "toast" /\ g.err THEN 1 ELSE 0)
            /\ (g.pc = "message" => g.err))
    /\ [][ \A g \in goroutines :
             (g.pc = "toast" /\ Steps(g))
             => \E h \in goroutines' :
                  /\ h.id = g.id
                  /\ h.pc = (IF h.err THEN "message" ELSE "clear") ]_vars
    /\ [][ \A g \in goroutines :
             (g.pc = "message" /\ Steps(g))
             => \E h \in goroutines' :
                  h.id = g.id /\ h.pc = "clear" /\ h.messages = 1 ]_vars
    /\ [][ \A g \in goroutines :
             (g.pc = "clear" /\ Steps(g))
             => /\ ~isMessageShowing'
                /\ \E h \in goroutines' :
                     h.id = g.id /\ h.pc = "store" /\ h.err = g.err ]_vars
    /\ [][ \A g \in goroutines :
             (g.pc = "store" /\ Steps(g))
             => (Ended(g) /\ lastTriggeredUnix' = now) ]_vars

\* A delivery whose toast failed has shown the dialog, cleared the flag and
\* is about to reset lastTriggeredAt.
C9_Witness ==
    \E g \in goroutines :
        g.pc = "store" /\ g.err /\ g.messages = 1 /\ ~isMessageShowing

\* C10: a command changes neither lastTriggeredAt nor the showing flag, and
\* the next tick computes its countdown and its trigger condition from
\* lastTriggeredAt and the interval then configured: it dispatches exactly
\* when that interval has elapsed and no notification is showing.
C10_IntervalChangeNextTick ==
    /\ [][ lastCmd' # lastCmd
           => /\ lastTriggeredUnix' = lastTriggeredUnix
              /\ isMessageShowing' = isMessageShowing ]_vars
    /\ [][ (LoopLeaves("select") /\ loopPc' = "loadLast")
           => countdown' =
                IF \/ isMessageShowing
                   \/ lastTriggeredUnix + cfg.IntervalMinutes * Minute <= now
                THEN BaseCountdown
                ELSE RunningCountdown(
                       lastTriggeredUnix + cfg.IntervalMinutes * Minute - now) ]_vars
    /\ [][ LoopLeaves("loadLast") => last' = lastTriggeredUnix ]_vars
    /\ [][ LoopLeaves("check")
           => ((loopPc' = "spawn")
                 <=> (Due(last, cfg.IntervalMinutes) /\ ~isMessageShowing)) ]_vars

\* The interval was lowered to no more than the elapsed time, and the next
\* tick dispatches although the earlier interval has not elapsed.
C10_Witness ==
    /\ loopPc = "spawn"
    /\ lastCmd.kind = "adjust"
    /\ lastCmd.delta < 0
    /\ ~Due(last, lastCmd.prev)
    /\ Due(last, cfg.IntervalMinutes)

\* The step in which onReady of process p loads the config
Loads(p) == procs[p] = "ready" /\ procs'[p] = "running"

\* C11: loading when the settings file is absent or is not JSON returns the
\* default config {3, "Posture Reminder", "Time to check your posture!"} and
\* tries to write it: a write that succeeds leaves exactly that config in
\* the file, a write that fails leaves the file as it was, and the config
\* returned is the default one either way.
C11_LoadDefaults ==
    [][\A p \in Procs :
          Loads(p) /\ disk.kind \in {"missing", "invalid"} =>
             /\ cfg' = Config(3, "Posture Reminder",
                              "Time to check your posture!")
             /\ lastCmd'.saved \in {"ok", "failed"}
             /\ lastCmd'.saved = "ok" => disk' = FileJson(cfg')
             /\ lastCmd'.saved = "failed" => disk' = disk]_vars

\* The defaults were returned although the file could not be created
C11_Witness ==
    /\ lastCmd.kind = "load"
    /\ lastCmd.saved = "failed"
    /\ disk.kind = "missing"
    /\ cfg = Config(3, "Posture Reminder", "Time to check your posture!")

\* C12: loading a settings file that parses clamps interval_minutes into
\* [1,1440] (99999 becomes 1440, a value below 1 becomes 1) and replaces an
\* empty title or message by its default; when any field was changed the
\* sanitized config is saved again, and a config that needed no change is
\* returned as it is and nothing is written.
C12_LoadSanitizes ==
    [][\A p \in Procs :
          Loads(p) /\ disk.kind = "json" =>
             LET f == disk.cfg
             IN  /\ cfg'.IntervalMinutes =
                       IF f.IntervalMinutes < 1 THEN 1
                       ELSE IF f.IntervalMinutes > 1440 THEN 1440
                       ELSE f.IntervalMinutes
                 /\ f.IntervalMinutes = 99999 => cfg'.IntervalMinutes = 1440
                 /\ cfg'.ReminderTitle =
                       IF f.ReminderTitle = "" THEN "Posture Reminder"
                       ELSE f.ReminderTitle
                 /\ cfg'.ReminderMessage =
                       IF f.ReminderMessage = ""
                       THEN "Time to check your posture!"
                       ELSE f.ReminderMessage
                 /\ cfg' # f =>
                       /\ lastCmd'.saved \in {"ok", "failed"}
                       /\ lastCmd'.saved = "ok" => disk' = FileJson(cfg')
                       /\ lastCmd'.saved = "failed" => disk' = disk
                 /\ cfg' = f =>
                       /\ lastCmd'.saved = "none"
                       /\ disk' = disk]_vars

\* A file with interval_minutes 99999 and an empty message was loaded as
\* 1440 minutes with the default message, and saved again
C12_Witness ==
    /\ lastCmd.kind = "load"
    /\ lastCmd.prev = 99999
    /\ lastCmd.saved = "ok"
    /\ cfg = Config(1440, "Stand up", "Time to check your posture!")
    /\ disk = FileJson(cfg)

\* C13: every adjust and reset command writes the config, also when the
\* clamped interval equals the one before; when that write succeeded the
\* settings file holds the in-memory config, and a process started on that
\* file loads this very config (its interval included) and writes nothing.
C13_CommandPersists ==
    lastCmd.kind \in {"adjust", "reset"} =>
       /\ lastCmd.saved \in {"ok", "failed"}
       /\ lastCmd.saved = "ok" =>
             /\ disk.kind = "json"
             /\ disk.cfg.IntervalMinutes = cfg.IntervalMinutes
             /\ disk.cfg = cfg
             /\ \A ok \in BOOLEAN :
                   /\ loadConfig(disk, ok).cfg.IntervalMinutes
                         = cfg.IntervalMinutes
                   /\ loadConfig(disk, ok).cfg = cfg
                   /\ loadConfig(disk, ok).disk = disk

\* +1m at the upper limit left the interval at 1440 and wrote the file
C13_Witness ==
    /\ lastCmd.kind = "adjust"
    /\ lastCmd.delta = 1
    /\ lastCmd.prev = maxInterval
    /\ cfg.IntervalMinutes = maxInterval
    /\ lastCmd.saved = "ok"
    /\ disk = FileJson(cfg)

\* Processes that passed enforceSingleInstance and have not exited
Instances == { p \in Procs : procs[p] \in {"ready", "running"} }

\* C14: at most one process is past enforceSingleInstance at any time, and
\* it holds a handle of the named mutex.  A process started while the mutex
\* exists is rejected: its only further step is its end, and neither its
\* start nor its end touches the config or the settings file.  A process
\* started while no handle is open acquires the mutex; the instance closes
\* its handle when it exits, and no handle outlives the processes.
C14_SingleInstance ==
    /\ [](Cardinality(Instances) <= 1 /\ Instances \subseteq mutexHandles)
    /\ []((\A p \in Procs : procs[p] = "off") => mutexHandles = {})
    /\ [][\A p \in Procs :
            /\ procs[p] = "off" /\ procs'[p] # "off" =>
                  IF mutexHandles # {}
                  THEN procs'[p] = "rejected"
                  ELSE procs'[p] = "ready" /\ p \in mutexHandles'
            /\ procs[p] = "rejected" => procs'[p] \in {"rejected", "off"}
            /\ procs'[p] # procs[p]
                  /\ "rejected" \in {procs[p], procs'[p]} =>
                  cfg' = cfg /\ disk' = disk /\ intervalLabel' = intervalLabel
            /\ procs[p] \in {"ready", "running"} /\ procs'[p] = "off" =>
                  p \notin mutexHandles']_vars

\* One process runs its loops, another one was started and is rejected
C14_Witness ==
    \E p, q \in Procs : procs[p] = "running" /\ procs[q] = "rejected"

\* A menu command that leaves the event loop running
MenuCommand ==
    \/ \E d \in Deltas : AdjustCmd(d)
    \/ ResetCmd
    \/ AboutCmd

\* Reminders are paused: the trigger check of line 446 would not pass even
\* when the longest interval that can be configured has elapsed since
\* lastTriggeredUnix and no notification is showing
Paused == ~(maxInterval * Minute >= TickIntervalMinutes * Minute)

\* C15: the user can pause the reminders at any time: whenever the event
\* loop can take a menu command, there is one after which no reminder is
\* dispatched, however much time passes, until another command resumes them.
C15_PauseAvailable ==
    LoopReady /\ nCmds < MaxCmds => ENABLED (MenuCommand /\ Paused')

\* C16: a tick that found isMessageShowing true at its start (line 418)
\* displays the base state and dispatches no delivery: it never gets to its
\* Store(true) and go statement, also when the delivery in flight finishes
\* while the tick is executing.
C16_ShowingTickSkipsTrigger ==
    showingAtDisplay =>
       /\ countdown = BaseCountdown
       /\ loopPc # "spawn"

\* The tick's display step, and what it shows
Displays == LoopLeaves("select") /\ loopPc' = "loadLast"

DisplayOnlyWhenRemaining ==
    [][Displays =>
          /\ countdown'.running =>
                /\ ~isMessageShowing
                /\ lastTriggeredUnix + cfg.IntervalMinutes * Minute - now > 0
          /\ \A k \in 1 .. 3 : countdown'.text[k] >= 0]_vars

\* C17: in every state in which isMessageShowing is true the countdown
\* display (tooltip and countdown label) is the base state; a tick displays
\* a countdown only when it found no notification showing and
\* lastTriggeredUnix + interval - now strictly positive, and no part of a
\* displayed time is negative.
C17_DisplaySuspendedWhileShowing ==
    /\ [](isMessageShowing => countdown = BaseCountdown)
    /\ DisplayOnlyWhenRemaining

\* C18: the config is written only by a command of the event loop, handled
\* in one piece between two iterations: no tick is in progress (none has
\* read the config and not yet finished) when the config or the settings
\* file changes.  The interval label shows the in-memory interval, as hours
\* and minutes, in every state: from the step that handled the command on,
\* before any later tick.
C18_ExclusiveUpdateLabelInStep ==
    /\ [](intervalLabel =
             << cfg.IntervalMinutes \div 60, cfg.IntervalMinutes % 60, 0 >>)
    /\ [][cfg' # cfg \/ disk' # disk =>
             /\ loopPc = "select" /\ loopPc' = "select"
             /\ lastCmd'.kind \in {"adjust", "reset"}
             /\ nCmds' = nCmds + 1
             /\ goroutines' = goroutines]_vars

\* +1h was handled while a tick is waiting: the label already shows 1h 3m
C18_Witness ==
    /\ lastCmd.kind = "adjust"
    /\ lastCmd.delta = 60
    /\ lastCmd.prev = 3
    /\ cfg.IntervalMinutes = 63
    /\ intervalLabel = <<1, 3, 0>>
    /\ tickPending
    /\ loopPc = "select"

\* The latest command handled is Quit
Quitted == lastCmd.kind = "quit"

\* C19: once Quit has been handled the event loop is gone for good: no tick
\* is processed (the display, the tick's position and the clock the ticker
\* follows stay as they are, the flag is never set), no delivery is
\* dispatched and no command changes the config, the file or the label; the
\* handle of the single-instance mutex is closed.  A delivery that was in
\* flight is not cancelled: each step it has left can still be taken.
C19_QuitEndsLoop ==
    /\ [](Quitted =>
             /\ loopPc = "exited"
             /\ ~instanceMutex
             /\ 1 \notin mutexHandles
             /\ \A g \in goroutines :
                   ENABLED (\/ ToastReturns(g) \/ MessageReturns(g)
                            \/ ClearShowing(g) \/ StoreLast(g)))
    /\ [][Quitted =>
             /\ Quitted'
             /\ UNCHANGED <<cfg, disk, intervalLabel, countdown, tickPending,
                            loopPc, last, dispatched, lastCmd, nCmds, now,
                            showingAtDisplay, instanceMutex, mutexHandles>>
             /\ isMessageShowing' => isMessageShowing
             /\ \A g \in goroutines' : \E h \in goroutines : h.id = g.id]_vars

\* Quit was handled while a delivery was waiting for its toast to return
C19_Witness ==
    /\ Quitted
    /\ isMessageShowing
    /\ \E g \in goroutines : g.pc = "toast"

\* C20: formatDuration of a whole number of seconds t renders, for t >= 0,
\* h = t/3600, m = (t/60) mod 60 and s = t mod 60, so that
\* h*3600 + m*60 + s = t with m and s in 0..59 (3661 gives "1h 1m 1s"), and
\* renders "0h 0m 0s" for every t <= 0.
C20_FormatWholeSeconds ==
    fmtD % Second = 0 =>
       LET t == fmtD \div Second
           h == fmtText[1]
           m == fmtText[2]
           s == fmtText[3]
       IN  /\ t >= 0 =>
                 /\ fmtText = << t \div 3600, (t \div 60) % 60, t % 60 >>
                 /\ h * 3600 + m * 60 + s = t
                 /\ h >= 0 /\ m \in 0 .. 59 /\ s \in 0 .. 59
           /\ t = 3661 => fmtText = <<1, 1, 1>>
           /\ t <= 0 => fmtText = <<0, 0, 0>>

\* 3661 seconds were rendered as "1h 1m 1s"
C20_Witness ==
    /\ fmtD = 3661 * Second
    /\ fmtText = <<1, 1, 1>>

\* The step in which the event loop handles an adjust or reset command
IntervalCommand ==
    /\ nCmds' = nCmds + 1
    /\ lastCmd'.kind \in {"adjust", "reset"}

\* C21: an adjust or reset command leaves the in-memory title and message,
\* lastTriggeredUnix, isMessageShowing, the deliveries in flight and the
\* countdown display as they are; the settings file stays or becomes the
\* in-memory config.  lastTriggeredUnix changes only in the last step of a
\* delivery goroutine, which stores the time of that step.
C21_CommandFrame ==
    [][/\ IntervalCommand =>
             /\ cfg'.ReminderTitle = cfg.ReminderTitle
             /\ cfg'.ReminderMessage = cfg.ReminderMessage
             /\ lastTriggeredUnix' = lastTriggeredUnix
             /\ isMessageShowing' = isMessageShowing
             /\ goroutines' = goroutines
             /\ dispatched' = dispatched
             /\ countdown' = countdown
             /\ now' = now
             /\ disk' \in {disk, FileJson(cfg')}
       /\ lastTriggeredUnix' # lastTriggeredUnix =>
             /\ \E g \in goroutines :
                   g.pc = "store" /\ goroutines' = goroutines \ {g}
             /\ lastTriggeredUnix' = now
             /\ ~IntervalCommand]_vars

\* The interval was raised while a delivery dispatched under the previous
\* interval is still in flight: the flag and the baseline are untouched
C21_Witness ==
    /\ lastCmd.kind = "adjust"
    /\ isMessageShowing
    /\ lastTriggeredUnix = 0
    /\ cfg.IntervalMinutes * Minute > now
    /\ cfg.ReminderTitle = "Stand up"
    /\ \E g \in goroutines :
          g.pc = "toast" /\ lastCmd.prev * Minute <= g.at

\* C22: an adjust or reset command whose save fails is not rolled back: the
\* in-memory interval and the label take the new clamped value, and the
\* settings file stays as it was, so that a process started next loads
\* what the file held before the command.
C22_FailedSaveNotRolledBack ==
    [][IntervalCommand /\ lastCmd'.saved = "failed" =>
          LET n == IF lastCmd'.kind = "reset" THEN 3
                   ELSE cfg.IntervalMinutes + lastCmd'.delta
              clamped == IF n < 1 THEN 1 ELSE IF n > 1440 THEN 1440 ELSE n
          IN  /\ cfg'.IntervalMinutes = clamped
              /\ intervalLabel' = << clamped \div 60, clamped % 60, 0 >>
              /\ disk' = disk
              /\ \A ok \in BOOLEAN :
                    loadConfig(disk', ok).cfg = loadConfig(disk, ok).cfg
              /\ disk.kind = "json" /\ ~needsSave(disk.cfg) =>
                    \A ok \in BOOLEAN :
                       loadConfig(disk', ok).cfg.IntervalMinutes
                          = disk.cfg.IntervalMinutes]_vars

\* After a failed save the file holds 5 minutes and the program runs with
\* 35: a restart would load 5
C22_Witness ==
    /\ lastCmd.kind = "adjust"
    /\ lastCmd.saved = "failed"
    /\ lastCmd.delta = 30
    /\ cfg.IntervalMinutes = 35
    /\ intervalLabel = <<0, 35, 0>>
    /\ disk = FileJson(Config(5, "Stand up", "Stretch"))
    /\ loadConfig(disk, TRUE).cfg.IntervalMinutes = 5

====
